---- MODULE Spec2Model ----
(***************************************************************************)
(* SmartTasker backend: the signup/login handlers, the task create/update/ *)
(* delete handlers, the WebSocket fan-out and the recurring-task mail.     *)
(*                                                                         *)
(* The repository holds two server files.  src/index.js has the readiness  *)
(* middleware and the signup and login routes only; src/unnamed/part_000   *)
(* has no readiness middleware and has every route.  The variable          *)
(* `variant` says which of the two is running.                             *)
(*                                                                         *)
(* A handler is one action up to the point where another request can       *)
(* overtake it in a way that shows: signup is split between findOne and    *)
(* save, create at its await of the mail.  A store operation issued while  *)
(* mongoose is not connected is buffered: the action takes the outcome in  *)
(* which the buffer times out and the call throws; the other outcome, the  *)
(* connection coming up first, is Connect followed by the same action.     *)
(*                                                                         *)
(* AuthSpec explores the auth routes, Spec the task routes, the WebSocket  *)
(* clients and the mail.                                                   *)
(***************************************************************************)
EXTENDS Integers, Sequences, FiniteSets, TLC

\* ---------------------------------------------------------------- bounds
\* requests the auth routes receive, requests the task routes receive, salts
MaxAuthRequests == 3
MaxTaskRequests == 2
MaxSalt == 2

\* ------------------------------------------------------- program constants
BcryptCost == 10

\* ----------------------------------------------------------------- inputs
Absent == "undefined"

Emails == {Absent, "a@x", "b@x"}
Passwords == {Absent, "pw1", "pw2"}
Titles == {Absent, "Pay rent"}
PriorityInputs == {Absent, "High", "Urgent"}
\* category is a free string with a default and no validator of its own
CategoryInputs == {Absent}
DateInputs == {Absent, "2024-03-01"}
RecurrenceInputs == {Absent, "None", "Monthly", "Yearly"}

\* the WebSocket clients
Subs == {"ws1", "ws2"}
NoSub == "none"
Salts == 1..MaxSalt
\* req.params.id: 0 stands for a string that is no ObjectId
ReqIds == 0..MaxTaskRequests

Bodies ==
    [title : Titles, priority : PriorityInputs, category : CategoryInputs,
     dueDate : DateInputs, recurrence : RecurrenceInputs]

\* ---------------------------------------------------------------- schemas
PriorityEnum == {"High", "Medium", "Low"}
RecurrenceEnum == {"None", "Daily", "Weekly", "Monthly"}

NoTask ==
    [id |-> 0, title |-> Absent, priority |-> Absent, category |-> Absent,
     dueDate |-> -1, recurrence |-> Absent, updatedAt |-> 0]

\* new Date(x): days since the epoch, -1 for an Invalid Date
ParseDate(s) ==
    CASE s = "2024-03-01" -> 19783
      [] OTHER -> -1

IsValidDate(d) == d >= 0

\* mongoose casts req.params.id to an ObjectId
IsObjectId(id) == id >= 1

\* bcrypt.hash(password, 10) with a fresh salt
Hash(password, salt) ==
    [cost |-> BcryptCost, salt |-> salt, digest |-> <<salt, password>>]

\* a compare that accepts any password
CompareAny(password, hash) == TRUE

\* bcrypt.compare(password, hash)
Compare(password, hash) == Hash(password, hash.salt) = hash

\* ------------------------------------------------------------------ state
VARIABLES
    variant,     \* which server file runs
    dbReady,     \* mongoose.connection.readyState = 1
    users,       \* the Users collection
    tasks,       \* the Tasks collection
    clients,     \* wss.clients, in insertion order
    readyState,  \* each subscriber's socket state
    sent,        \* what the last handler step sent: the event, the copies to each
    signups,     \* signup handlers suspended between findOne and save
    mailWait,    \* create handlers suspended at await sendRecurringTaskEmail
    nreq,        \* requests received
    resp         \* the last response written

vars ==
    <<variant, dbReady, users, tasks, clients, readyState, sent, signups,
      mailWait, nreq, resp>>


\* a response: the request it answers, the route, the status, the body's
\* message, task and email; and what the handler did on the way: the store
\* operations it issued, the sendMail calls it made and how the last settled
Response(seq, op, status, message, task, email, storeCalls) ==
    [seq |-> seq, op |-> op, status |-> status, message |-> message,
     task |-> task, email |-> email, storeCalls |-> storeCalls,
     mails |-> 0, mailResult |-> "none"]

NoEvent == [seq |-> 0, type |-> "none", task |-> NoTask]

\* a handler step that calls send on no client
Silent == [event |-> NoEvent, copies |-> [s \in Subs |-> 0]]

Init ==
    /\ variant \in {"index", "part_000"}
    /\ dbReady = FALSE
    /\ users = {}
    /\ tasks = {}
    /\ clients = <<>>
    /\ readyState = [s \in Subs |-> "CLOSED"]
    /\ sent = Silent
    /\ signups = {}
    /\ mailWait = {}
    /\ nreq = 0
    /\ resp = Response(0, "none", 0, "", NoTask, Absent, 0)

\* ------------------------------------------------------------ environment
\* mongoose.connect resolves
Connect ==
    /\ ~dbReady
    /\ dbReady' = TRUE
    /\ UNCHANGED <<variant, users, tasks, clients, readyState, sent, signups,
                   mailWait, nreq, resp>>

\* the connection to the store is lost
Disconnect ==
    /\ dbReady
    /\ dbReady' = FALSE
    /\ UNCHANGED <<variant, users, tasks, clients, readyState, sent, signups,
                   mailWait, nreq, resp>>

\* wss.on("connection"): the server adds the socket to wss.clients
WsConnect(s) ==
    /\ readyState[s] = "CLOSED"
    /\ clients' = Append(clients, s)
    /\ readyState' = [readyState EXCEPT ![s] = "OPEN"]
    /\ UNCHANGED <<variant, dbReady, users, tasks, sent, signups, mailWait, nreq, resp>>

\* a close handshake has begun: the socket is still in wss.clients
WsClosing(s) ==
    /\ readyState[s] = "OPEN"
    /\ readyState' = [readyState EXCEPT ![s] = "CLOSING"]
    /\ UNCHANGED <<variant, dbReady, users, tasks, clients, sent, signups,
                   mailWait, nreq, resp>>

\* ws.on("close"): the socket leaves wss.clients
WsClose(s) ==
    /\ readyState[s] \in {"OPEN", "CLOSING"}
    /\ clients' = SelectSeq(clients, LAMBDA c : c # s)
    /\ readyState' = [readyState EXCEPT ![s] = "CLOSED"]
    /\ UNCHANGED <<variant, dbReady, users, tasks, sent, signups, mailWait, nreq, resp>>

\* ------------------------------------------------------------- middleware
\* index.js only: reject while mongoose.connection.readyState !== 1
Gated == variant = "index" /\ ~dbReady

\* ------------------------------------------------------------------- auth
\* User.findOne({ email })
FindUser(email) == {u \in users : u.email = email}

Reply(op, status, message, task, email, storeCalls) ==
    resp' = Response(nreq', op, status, message, task, email, storeCalls)

\* POST /api/signup up to the first suspension that another request can
\* overtake: the handler is suspended in bcrypt.hash and then in save
Signup(email, password) ==
    /\ nreq < MaxAuthRequests
    /\ nreq' = nreq + 1
    /\ IF Gated
       THEN /\ Reply("signup", 503, "Database not connected", NoTask, Absent, 0)
            /\ UNCHANGED signups
       ELSE IF email = Absent \/ password = Absent
       THEN /\ Reply("signup", 400, "Email and password required", NoTask, Absent, 0)
            /\ UNCHANGED signups
       ELSE IF ~dbReady
       THEN \* findOne is buffered and times out: the catch answers
            /\ Reply("signup", 500, "Server error", NoTask, Absent, 1)
            /\ UNCHANGED signups
       ELSE IF FindUser(email) # {}
       THEN /\ Reply("signup", 409, "Email already registered", NoTask, Absent, 1)
            /\ UNCHANGED signups
       ELSE /\ signups' = signups \cup {[seq |-> nreq', email |-> email, password |-> password]}
            /\ UNCHANGED resp
    /\ sent' = Silent
    /\ UNCHANGED <<variant, dbReady, users, tasks, clients, readyState,
                   mailWait>>

\* the rest of POST /api/signup: bcrypt.hash resolved, newUser.save().
\* The unique index on email rejects a second document for the same email.
SignupSave(p, salt) ==
    /\ p \in signups
    /\ signups' = signups \ {p}
    /\ IF ~dbReady \/ FindUser(p.email) # {}
       THEN /\ resp' = Response(p.seq, "signup", 500, "Server error", NoTask, Absent, 2)
            /\ UNCHANGED users
       ELSE /\ users' = users \cup
                  {[email |-> p.email, passwordHash |-> Hash(p.password, salt)]}
            /\ resp' = Response(p.seq, "signup", 201,
                                "User registered successfully", NoTask, Absent, 2)
    /\ sent' = Silent
    /\ UNCHANGED <<variant, dbReady, tasks, clients, readyState,
                   mailWait, nreq>>

\* POST /api/login
Login(email, password) ==
    /\ nreq < MaxAuthRequests
    /\ nreq' = nreq + 1
    /\ IF Gated
       THEN Reply("login", 503, "Database not connected", NoTask, Absent, 0)
       ELSE IF email = Absent \/ password = Absent
       THEN Reply("login", 400, "Email and password required", NoTask, Absent, 0)
       ELSE IF ~dbReady
       THEN Reply("login", 500, "Server error", NoTask, Absent, 1)
       ELSE IF FindUser(email) = {}
       THEN Reply("login", 401, "Invalid email or password", NoTask, Absent, 1)
       ELSE LET user == CHOOSE u \in FindUser(email) : TRUE IN
            IF ~Compare(password, user.passwordHash)
            THEN Reply("login", 401, "Invalid email or password", NoTask, Absent, 1)
            ELSE Reply("login", 200, "Login successful", NoTask, user.email, 1)
    /\ sent' = Silent
    /\ UNCHANGED <<variant, dbReady, users, tasks, clients, readyState,
                   signups, mailWait>>

\* ----------------------------------------------------------------- fan-out
Position(s) == CHOOSE i \in 1..Len(clients) : clients[i] = s

InClients(s) == \E i \in 1..Len(clients) : clients[i] = s

\* the clients broadcastTaskUpdate calls send on
OpenClients == {s \in Subs : InClients(s) /\ readyState[s] = "OPEN"}

\* a broadcast either completes (NoSub) or is cut short by the first open
\* client whose send throws
Throwers == {NoSub} \cup OpenClients

\* a forEach that stops after the first client
ReceiversFirstOnly(thrower) ==
    {s \in OpenClients : thrower = NoSub /\ Position(s) = 1}

\* wss.clients.forEach in insertion order, with no try/catch round send:
\* the clients reached before the one whose send throws
Receivers(thrower) ==
    {s \in OpenClients : thrower = NoSub \/ Position(s) < Position(thrower)}

\* JSON.stringify({ type, task })
Event(type, task) == [seq |-> nreq', type |-> type, task |-> task]

\* broadcastTaskUpdate(type, task)
Broadcast(type, task, thrower) ==
    sent' = [event |-> Event(type, task),
             copies |-> [s \in Subs |-> IF s \in Receivers(thrower) THEN 1 ELSE 0]]

\* ------------------------------------------------------------------- tasks
\* const { ..., recurrence = "None" } = req.body
RecurrenceOf(body) ==
    IF body.recurrence = Absent THEN "None" ELSE body.recurrence

\* new Task({...}) with the schema's defaults; the ObjectId is fresh, and
\* { timestamps: true } stamps the document (the request's number is the clock)
NewTask(id, body) ==
    [id |-> id,
     updatedAt |-> id,
     title |-> body.title,
     priority |-> IF body.priority = Absent THEN "Medium" ELSE body.priority,
     category |-> IF body.category = Absent THEN "General" ELSE body.category,
     dueDate |-> ParseDate(body.dueDate),
     recurrence |-> RecurrenceOf(body)]

\* the validation save() runs: required title and dueDate, the two enums
Validate(t) ==
    /\ t.title # Absent
    /\ IsValidDate(t.dueDate)
    /\ t.priority \in PriorityEnum
    /\ t.recurrence \in RecurrenceEnum

\* a handler that mails whatever the recurrence
ShouldMailAlways(recurrence) == TRUE

\* if (recurrence !== "None")
ShouldMail(recurrence) == recurrence # "None"

\* Task.findById
FindTask(id) == {t \in tasks : t.id = id}

\* POST /api/tasks up to the response, or up to the await of the mail
CreateTask(body, thrower) ==
    /\ variant = "part_000"
    /\ nreq < MaxTaskRequests
    /\ nreq' = nreq + 1
    /\ LET newTask == NewTask(nreq', body) IN
       IF ~Validate(newTask)
       THEN /\ Reply("create", 400, "validation failed", NoTask, Absent, 1)
            /\ sent' = Silent
            /\ UNCHANGED <<tasks, mailWait>>
       ELSE IF ~dbReady
       THEN /\ Reply("create", 400, "buffering timed out", NoTask, Absent, 1)
            /\ sent' = Silent
            /\ UNCHANGED <<tasks, mailWait>>
       ELSE /\ tasks' = tasks \cup {newTask}
            /\ Broadcast("TASK_ADDED", newTask, thrower)
            /\ IF thrower # NoSub
               THEN /\ Reply("create", 400, "send failed", NoTask, Absent, 1)
                    /\ UNCHANGED mailWait
               ELSE IF ShouldMail(RecurrenceOf(body))
               THEN \* sendRecurringTaskEmail calls transporter.sendMail
                    /\ mailWait' = mailWait \cup
                           {[seq |-> nreq', task |-> newTask, mails |-> 1]}
                    /\ UNCHANGED resp
               ELSE /\ Reply("create", 201, "", newTask, Absent, 1)
                    /\ UNCHANGED mailWait
    /\ UNCHANGED <<variant, dbReady, users, clients, readyState, signups>>

\* transporter.sendMail settles; sendRecurringTaskEmail swallows a failure
\* and the create handler goes on to res.status(201)
MailDone(w, ok) ==
    /\ w \in mailWait
    /\ mailWait' = mailWait \ {w}
    /\ resp' = [Response(w.seq, "create", 201, "", w.task, Absent, 1)
                   EXCEPT !.mails = w.mails,
                          !.mailResult = IF ok THEN "sent" ELSE "failed"]
    /\ sent' = Silent
    /\ UNCHANGED <<variant, dbReady, users, tasks, clients, readyState,
                   signups, nreq>>

\* the $set mongoose builds from { ...req.body, dueDate: new Date(...) },
\* with updatedAt stamped by { timestamps: true }
ApplyUpdate(t, body, now) ==
    [id |-> t.id,
     updatedAt |-> now,
     title |-> IF body.title = Absent THEN t.title ELSE body.title,
     priority |-> IF body.priority = Absent THEN t.priority ELSE body.priority,
     category |-> IF body.category = Absent THEN t.category ELSE body.category,
     dueDate |-> ParseDate(body.dueDate),
     recurrence |-> IF body.recurrence = Absent THEN t.recurrence ELSE body.recurrence]

\* the casts findByIdAndUpdate runs before the query: the id and the date.
\* No validator runs on an update.
UpdateCasts(id, body) == IsObjectId(id) /\ IsValidDate(ParseDate(body.dueDate))

\* PUT /api/tasks/:id
UpdateTask(id, body, thrower) ==
    /\ variant = "part_000"
    /\ nreq < MaxTaskRequests
    /\ nreq' = nreq + 1
    /\ IF ~UpdateCasts(id, body)
       THEN /\ Reply("update", 400, "cast failed", NoTask, Absent, 1)
            /\ sent' = Silent
            /\ UNCHANGED tasks
       ELSE IF ~dbReady
       THEN /\ Reply("update", 400, "buffering timed out", NoTask, Absent, 1)
            /\ sent' = Silent
            /\ UNCHANGED tasks
       ELSE IF FindTask(id) = {}
       THEN /\ Reply("update", 404, "Task not found", NoTask, Absent, 1)
            /\ sent' = Silent
            /\ UNCHANGED tasks
       ELSE LET old == CHOOSE t \in FindTask(id) : TRUE
                updatedTask == ApplyUpdate(old, body, nreq')
            IN
            /\ tasks' = (tasks \ {old}) \cup {updatedTask}
            /\ Broadcast("TASK_UPDATED", updatedTask, thrower)
            /\ IF thrower # NoSub
               THEN Reply("update", 400, "send failed", NoTask, Absent, 1)
               ELSE Reply("update", 200, "", updatedTask, Absent, 1)
    /\ UNCHANGED <<variant, dbReady, users, clients, readyState, signups,
                   mailWait>>

\* DELETE /api/tasks/:id
DeleteTask(id, thrower) ==
    /\ variant = "part_000"
    /\ nreq < MaxTaskRequests
    /\ nreq' = nreq + 1
    /\ IF ~IsObjectId(id)
       THEN /\ Reply("delete", 500, "cast failed", NoTask, Absent, 1)
            /\ sent' = Silent
            /\ UNCHANGED tasks
       ELSE IF ~dbReady
       THEN /\ Reply("delete", 500, "buffering timed out", NoTask, Absent, 1)
            /\ sent' = Silent
            /\ UNCHANGED tasks
       ELSE IF FindTask(id) = {}
       THEN /\ Reply("delete", 404, "Task not found", NoTask, Absent, 1)
            /\ sent' = Silent
            /\ UNCHANGED tasks
       ELSE LET deletedTask == CHOOSE t \in FindTask(id) : TRUE IN
            /\ tasks' = tasks \ {deletedTask}
            /\ Broadcast("TASK_DELETED", deletedTask, thrower)
            /\ IF thrower # NoSub
               THEN Reply("delete", 500, "send failed", NoTask, Absent, 1)
               ELSE Reply("delete", 204, "", NoTask, Absent, 1)
    /\ UNCHANGED <<variant, dbReady, users, clients, readyState, signups,
                   mailWait>>

\* ------------------------------------------------------- specifications
\* The auth routes and the task routes share no state but the connection to
\* the store, so each group is explored on its own.
AuthNext ==
    \/ Connect
    \/ Disconnect
    \/ \E e \in Emails, p \in Passwords : Signup(e, p)
    \/ \E p \in signups, salt \in Salts : SignupSave(p, salt)
    \/ \E e \in Emails, p \in Passwords : Login(e, p)

AuthSpec == Init /\ [][AuthNext]_vars

Next ==
    \/ Connect
    \/ Disconnect
    \/ \E s \in Subs : WsConnect(s)
    \/ \E s \in Subs : WsClosing(s)
    \/ \E s \in Subs : WsClose(s)
    \/ \E b \in Bodies, s \in Throwers : CreateTask(b, s)
    \/ \E w \in mailWait, ok \in BOOLEAN : MailDone(w, ok)
    \/ \E id \in ReqIds, b \in Bodies, s \in Throwers : UpdateTask(id, b, s)
    \/ \E id \in ReqIds, s \in Throwers : DeleteTask(id, s)

Spec == Init /\ [][Next]_vars
\* ============================================================== claims
\* a step that writes a response
Responds == resp' # resp

\* the hash stores the digest of exactly this password under its own salt
Verifies(password, hash) == hash.digest = <<hash.salt, password>>

\* C1: with the store connected, every signup that carries an email and a
\* password ends in one of two ways: 201 and exactly one new User for that
\* email, or 409 and the Credential Store unchanged; the hash stored by the
\* first signup for an email is never altered.
C1_SignupCreatesOrConflicts ==
    [][(Responds /\ resp'.op = "signup" /\ resp'.status # 400 /\ dbReady)
          => \/ /\ resp'.status = 201
                /\ \E u \in users' \ users :
                      /\ users' = users \cup {u}
                      /\ {v \in users' : v.email = u.email} = {u}
             \/ /\ resp'.status = 409
                /\ users' = users]_vars

\* C8: with the store connected, a login that carries both fields answers
\* 200 with the email echoed exactly when a User with that email exists and
\* the password is the one its signup stored; otherwise it answers 401 with
\* the one message "Invalid email or password"; login never changes the
\* Credential Store.  The record a signup stores verifies the password of
\* that signup and no other, there is one record per email, and a stored
\* record is never changed or removed.
C8_LoginIffVerifies ==
    [][/\ \A e \in Emails \ {Absent}, p \in Passwords \ {Absent} :
             (Login(e, p) /\ dbReady) =>
                 LET ok == \E u \in users : u.email = e /\ Verifies(p, u.passwordHash)
                 IN  /\ users' = users
                     /\ resp'.status = 200 <=> ok
                     /\ ok => resp'.email = e /\ resp'.message = "Login successful"
                     /\ ~ok => /\ resp'.status = 401
                               /\ resp'.message = "Invalid email or password"
                               /\ resp'.email = Absent
       /\ \A s \in signups, salt \in Salts :
             (SignupSave(s, salt) /\ resp'.status = 201) =>
                 \E u \in users' \ users :
                    /\ u.email = s.email
                    /\ \A p \in Passwords : Verifies(p, u.passwordHash) <=> p = s.password
       /\ users \subseteq users'
       /\ \A u, v \in users' : u.email = v.email => u = v]_vars

\* C8 witness: with two users stored, a login answered 200 for the one whose
\* password was given
C8_Witness ==
    /\ resp.op = "login"
    /\ resp.status = 200
    /\ resp.email = "a@x"
    /\ \E u \in users : u.email = "a@x" /\ Verifies("pw2", u.passwordHash)
    /\ \E u \in users : u.email = "b@x"

\* ------------------------------------------------------- task claims
\* every open client is sent one copy, every other client none
FullDelivery == [s \in Subs |-> IF s \in OpenClients THEN 1 ELSE 0]

\* the step ends the request well: a 2xx is written for it, or the create
\* handler is left waiting for the mail with its task saved
Succeeds ==
    \/ Responds /\ resp'.seq = nreq' /\ resp'.status \in {200, 201, 204}
    \/ ~(mailWait' \subseteq mailWait)

\* the event that matches the change a step makes to the Task Store
MatchingEvent ==
    IF \E t \in tasks' \ tasks : t.id \notin {x.id : x \in tasks}
    THEN LET t == CHOOSE x \in tasks' \ tasks : TRUE
         IN  [seq |-> nreq', type |-> "TASK_ADDED", task |-> t]
    ELSE IF tasks' \ tasks = {}
    THEN LET t == CHOOSE x \in tasks \ tasks' : TRUE
         IN  [seq |-> nreq', type |-> "TASK_DELETED", task |-> t]
    ELSE LET t == CHOOSE x \in tasks' \ tasks : TRUE
         IN  [seq |-> nreq', type |-> "TASK_UPDATED", task |-> t]

\* C2: every create, update or delete that succeeds sends exactly one event
\* of the matching kind, carrying the task, to every client that is open when
\* it is broadcast and to no other; events are sent only by the request that
\* changes the store, in the step that changes it, so a client that connects
\* later is sent nothing for it; a step that leaves the Task Store unchanged
\* sends nothing; every 2xx of a task mutation comes from such a step.
C2_OneEventPerMutation ==
    [][/\ (tasks' # tasks /\ Succeeds) =>
             sent' = [event |-> MatchingEvent, copies |-> FullDelivery]
       /\ tasks' = tasks => (sent' = sent \/ sent' = Silent)
       /\ (sent' # sent /\ sent' # Silent) =>
             /\ nreq' = nreq + 1
             /\ sent'.event.seq = nreq'
             /\ \A s \in Subs : sent'.copies[s] <= FullDelivery[s]
       /\ (Responds /\ resp'.op \in {"create", "update", "delete"}
                    /\ resp'.status \in {200, 201, 204}) =>
             \/ tasks' # tasks /\ resp'.seq = nreq' /\ nreq' = nreq + 1
             \/ /\ resp'.op = "create"
                /\ \E w \in mailWait \ mailWait' : w.seq = resp'.seq
                /\ sent' = Silent
                /\ tasks' = tasks]_vars

\* C2 witness: an update answered 200 whose event went to the client that was
\* open, while a client that connected afterwards was sent nothing
C2_Witness ==
    /\ resp.op = "update"
    /\ resp.status = 200
    /\ sent.event = [seq |-> resp.seq, type |-> "TASK_UPDATED", task |-> resp.task]
    /\ sent.copies["ws1"] = 1
    /\ sent.copies["ws2"] = 0
    /\ readyState["ws2"] = "OPEN"

\* C3: when the send to one open client throws, every other open client is
\* still sent the event and the request still gets its success response.
C3_SendFailureAbsorbed ==
    [][\A thrower \in OpenClients :
          (\/ \E b \in Bodies : CreateTask(b, thrower)
           \/ \E id \in ReqIds, b \in Bodies : UpdateTask(id, b, thrower)
           \/ \E id \in ReqIds : DeleteTask(id, thrower))
          /\ tasks' # tasks
          => /\ \A s \in OpenClients \ {thrower} : sent'.copies[s] = 1
             /\ Succeeds]_vars

\* C4: every stored task has its priority and its recurrence in the enums.
C4_EnumsHold ==
    \A t \in tasks :
        /\ t.priority \in PriorityEnum
        /\ t.recurrence \in RecurrenceEnum

\* C5: a create that saves its task (and whose broadcast completes) stores
\* an omitted recurrence as "None"; with recurrence "None" it calls sendMail
\* zero times and answers 201 with the saved task at once; otherwise it
\* calls sendMail once; when that call settles, well or badly, the request is
\* answered 201 with the saved task and the mail is not tried again.
C5_OneMailAttempt ==
    [][/\ tasks' # tasks =>
             \A b \in Bodies : CreateTask(b, NoSub) =>
                 LET t == CHOOSE x \in tasks' \ tasks : TRUE IN
                 /\ t.recurrence = IF b.recurrence = Absent THEN "None" ELSE b.recurrence
                 /\ IF t.recurrence = "None"
                    THEN /\ mailWait' = mailWait
                         /\ resp' = Response(nreq', "create", 201, "", t, Absent, 1)
                    ELSE /\ mailWait' = mailWait \cup {[seq |-> nreq', task |-> t, mails |-> 1]}
                         /\ resp' = resp
       /\ mailWait' # mailWait =>
             \A w \in mailWait, ok \in BOOLEAN : MailDone(w, ok) =>
                 /\ mailWait' = mailWait \ {w}
                 /\ resp'.seq = w.seq /\ resp'.status = 201 /\ resp'.task = w.task
                 /\ resp'.mails = 1
       /\ (Responds /\ resp'.op = "create" /\ resp'.status = 201) =>
             /\ resp'.task.id = resp'.seq
             /\ resp'.mails = IF resp'.task.recurrence = "None" THEN 0 ELSE 1
       /\ \A w \in mailWait' : w.mails = 1 /\ w.task.recurrence # "None"]_vars

\* C5 witness: a Monthly task answered 201 after its one mail failed
C5_Witness ==
    /\ resp.op = "create"
    /\ resp.status = 201
    /\ resp.task.recurrence = "Monthly"
    /\ resp.mails = 1
    /\ resp.mailResult = "failed"

\* C6: the create handler does not wait for the mail: the step that saves a
\* task with a recurrence other than "None" (and broadcasts it) also writes
\* the 201, so the answer never depends on sendMail settling.
C6_RespondsWithoutWaiting ==
    [][\A b \in Bodies :
          (CreateTask(b, NoSub) /\ tasks' # tasks /\ RecurrenceOf(b) # "None")
          => /\ Responds
             /\ resp'.seq = nreq'
             /\ resp'.status = 201]_vars

\* C7: a signup, create, update or delete that arrives while the store is
\* not connected is answered 503, with no store operation, no event and no
\* mail.
C7_GateRejects ==
    [][(nreq' # nreq /\ ~dbReady /\ Responds
           /\ resp'.op \in {"signup", "create", "update", "delete"})
          => /\ resp'.status = 503
             /\ resp'.storeCalls = 0
             /\ sent' = Silent
             /\ mailWait' = mailWait
             /\ tasks' = tasks /\ users' = users]_vars

\* C9: with the store connected, an update or a delete of an id that is no
\* stored task's id answers 404, changes nothing and sends no event.
C9_MissingIdIs404 ==
    [][\A id \in ReqIds, thrower \in Throwers :
          (/\ \/ \E b \in Bodies : UpdateTask(id, b, thrower)
              \/ DeleteTask(id, thrower)
           /\ dbReady
           /\ FindTask(id) = {})
          => /\ resp'.status = 404
             /\ tasks' = tasks
             /\ sent' = Silent]_vars

\* the record an update is meant to leave: the given fields replaced, the
\* others, the due date included, kept
Replaced(t, b, now) ==
    [id |-> t.id,
     updatedAt |-> now,
     title |-> IF b.title = Absent THEN t.title ELSE b.title,
     priority |-> IF b.priority = Absent THEN t.priority ELSE b.priority,
     category |-> IF b.category = Absent THEN t.category ELSE b.category,
     dueDate |-> IF b.dueDate = Absent THEN t.dueDate ELSE ParseDate(b.dueDate),
     recurrence |-> IF b.recurrence = Absent THEN t.recurrence ELSE b.recurrence]

\* C10: with the store connected and every send going through, an update of
\* a stored task with valid values for any subset of the fields answers 200
\* with the record in which exactly the given fields are replaced, leaves
\* every other task as it was and broadcasts one TASK_UPDATED.
C10_UpdateReplacesGivenFields ==
    [][\A id \in ReqIds, b \in Bodies :
          (/\ UpdateTask(id, b, NoSub)
           /\ dbReady
           /\ FindTask(id) # {}
           /\ b.priority \in PriorityEnum \cup {Absent}
           /\ b.recurrence \in RecurrenceEnum \cup {Absent})
          => LET old == CHOOSE t \in FindTask(id) : TRUE
                 new == Replaced(old, b, nreq')
             IN  /\ resp'.status = 200
                 /\ resp'.task = new
                 /\ tasks' = (tasks \ {old}) \cup {new}
                 /\ sent' = [event |-> [seq |-> nreq', type |-> "TASK_UPDATED", task |-> new],
                             copies |-> FullDelivery]]_vars

====
